---------------------------- MODULE Spec2Model ----------------------------
(***************************************************************************)
(* Model of the electromobility charging-demand allocation of eDisGo       *)
(* (edisgo/io/electromobility_import.py): distribute_charging_demand       *)
(* (Spec; ModeSpec for calls with kwargs), the three readers of            *)
(* import_simbev_electromobility (ImportSpec: the CSV files and the        *)
(* configuration; GpkgSpec: the grid connections),                         *)
(* determine_grid_connection_capacity (CapacitySpec), and the power flow   *)
(* results of edisgo/grid/network.py (ResultsSpec).                        *)
(*                                                                         *)
(* Numbers: powers are held in hundredths of a kW, user centric weights in *)
(* multiples of 1/WScale, the efficiency eta_charging_points in percent.   *)
(* A designated capacity is held multiplied by eta_charging_points (in     *)
(* percent), which keeps "power / eta" an integer; min-max scaling, the    *)
(* only reader of the designated capacities, does not see a common factor. *)
(* DataFrame indices are the 0-based integer labels pandas gives them.     *)
(***************************************************************************)
EXTENDS Integers, Sequences, FiniteSets, TLC

\* ------------------------------------------------------------------ bounds
MaxProcs == 3        \* rows of charging_processes_df
WScale == 2          \* a user centric weight w stands for w / WScale

\* --------------------------------------------------------------- constants
NaN == -1            \* an empty cell of a DataFrame
Unbound == -2        \* a local name that was never assigned
BadId == -3          \* a topology id default_rng cannot take as a seed

USECASES == {"hpc", "public", "home", "work"}

PRIVATE_DESTINATIONS == [d \in {"0_work", "6_home"} |->
                            IF d = "0_work" THEN "work" ELSE "home"]

\* Mutant: the charging hub is one more public destination.
PUBLIC_DESTINATIONS_AllPublic ==
    [d \in {"0_work", "1_business", "2_school", "3_shopping",
            "4_private/ridesharing", "5_leisure", "6_home", "7_charging_hub"} |->
        "public"]

PUBLIC_DESTINATIONS ==
    [d \in {"0_work", "1_business", "2_school", "3_shopping",
            "4_private/ridesharing", "5_leisure", "6_home", "7_charging_hub"} |->
        IF d = "7_charging_hub" THEN "hpc" ELSE "public"]

\* ----------------------------------------------------------------- helpers
SetMax(S) == CHOOSE x \in S : \A y \in S : y <= x

SetMin(S) == CHOOSE x \in S : \A y \in S : x <= y

RECURSIVE GCD(_, _)
GCD(a, b) == IF b = 0 THEN a ELSE GCD(b, a % b)

RECURSIVE SeqGCD(_)
SeqGCD(s) == IF s = << >> THEN 0 ELSE GCD(Head(s), SeqGCD(Tail(s)))

RECURSIVE SeqSum(_)
SeqSum(s) == IF s = << >> THEN 0 ELSE Head(s) + SeqSum(Tail(s))

\* The elements of a finite set of integers, ascending (Index objects of
\* pandas selections keep the order of the frame, which is ascending here).
RECURSIVE Ascending(_)
Ascending(S) == IF S = {} THEN << >>
                ELSE LET m == SetMin(S) IN <<m>> \o Ascending(S \ {m})

\* str ordering of the destination codes: they differ in their first digit.
DestRank(d) == CASE d = "0_work" -> 0
                 [] d = "1_business" -> 1
                 [] d = "2_school" -> 2
                 [] d = "3_shopping" -> 3
                 [] d = "4_private/ridesharing" -> 4
                 [] d = "5_leisure" -> 5
                 [] d = "6_home" -> 6
                 [] d = "7_charging_hub" -> 7
                 [] OTHER -> 8

\* round(x, 1) of a power held in hundredths, in tenths (round half to even).
Round1(x) == LET q == x \div 10
                 r == x % 10
             IN IF r < 5 THEN q
                ELSE IF r > 5 THEN q + 1
                ELSE IF q % 2 = 0 THEN q ELSE q + 1

\* ------------------------------------------------------------------ inputs
\* What read_csvs_charging_processes hands over: the rows of one CSV file
\* share car_id (the file's position) and ags (its directory), files are
\* appended in car_id order, the two matching columns are empty.
AgsOfCar(c) == 1 + (c % 2)

ProcessRow(car, dest, uc, kw, s, e) ==
    [ags |-> AgsOfCar(car), car_id |-> car, destination |-> dest,
     use_case |-> uc, grid_charging_capacity_kW |-> kw,
     chargingdemand_kWh |-> 5, park_start_timesteps |-> s,
     park_end_timesteps |-> e,
     charging_park_id |-> NaN, charging_point_id |-> NaN]

Cars == {0, 1}

\* Private rows: both cars at work and at home, and one row whose destination
\* is no private destination.
PrivateRows ==
    {ProcessRow(c, d, "private", 1100, 0, 2) :
        c \in Cars, d \in {"0_work", "6_home"}}
    \cup {ProcessRow(0, "3_shopping", "private", 1100, 0, 2)}

\* Public rows: powers that are equal, that round to the same tenth and that
\* differ; stays that end one after the other and that end together; a
\* charging hub; a public stay at a destination that is private as well.
PublicRows ==
    {ProcessRow(0, "3_shopping", "public", 1100, 0, 1),
     ProcessRow(0, "3_shopping", "public", 1100, 0, 2),
     ProcessRow(0, "3_shopping", "public", 1104, 0, 2),
     ProcessRow(0, "3_shopping", "public", 2200, 0, 2),
     ProcessRow(0, "7_charging_hub", "public", 1100, 1, 2),
     ProcessRow(0, "0_work", "public", 1100, 0, 2)}

ProcessTables ==
    {t \in UNION {[1..n -> PrivateRows \cup PublicRows] : n \in 1..MaxProcs} :
        \A i \in 1..(Len(t) - 1) : t[i].car_id <= t[i + 1].car_id}

\* What read_gpkg_grid_connections hands over: sorted by use case, ags and
\* descending weight, the weights min-max scaled within each use case.
GridConnection(a, uc, w) == [ags |-> a, use_case |-> uc, user_centric_weight |-> w]

One(uc, a) == <<GridConnection(a, uc, 0)>>

Two(uc, a, b) == <<GridConnection(a, uc, WScale), GridConnection(b, uc, 0)>>

\* One grid connection per use case; two per use case, all in ags 1; home
\* grid connections in both ags.
GridConnectionTables ==
    {One("home", 1) \o One("hpc", 1) \o One("public", 1) \o One("work", 1),
     Two("home", 1, 1) \o One("hpc", 1) \o Two("public", 1, 1) \o Two("work", 1, 1),
     Two("home", 1, 2) \o One("hpc", 1) \o One("public", 1) \o Two("work", 1, 1)}

\* A table of n rows as pandas labels it: 0 .. n-1.
Frame(t) == [i \in 0..(Len(t) - 1) |-> t[i + 1]]

\* A frame as the sequence of its rows.
Table(df) == [k \in 1..Cardinality(DOMAIN df) |-> df[k - 1]]


\* gc_to_car_rate_<use case>, per mille: the least number of grid connections
\* of a use case per car that read_gpkg_grid_connections leaves behind.
GcToCarRate(uc) == CASE uc = "home" -> 500
                     [] uc = "work" -> 250
                     [] uc = "public" -> 100
                     [] uc = "hpc" -> 5

NumCars(t) == Cardinality({t[i].car_id : i \in 1..Len(t)})

EnoughGridConnections(t, g) ==
    \A uc \in USECASES :
        LET num_gcs == Cardinality({i \in 1..Len(g) : g[i].use_case = uc})
        IN num_gcs * 1000 >= GcToCarRate(uc) * NumCars(t)

\* A topology id is a seed, or something default_rng raises on.
TopologyIds == {BadId, 1}

\* eta_cp of the SimBEV configuration, in percent.
EtaValues == {90}

\* ------------------------------------------------------------------- state
VARIABLES
    charging_processes_df,   \* edisgo_obj.electromobility.charging_processes_df
    grid_connections_gdf,    \* edisgo_obj.electromobility.grid_connections_gdf
    eta_charging_points,     \* edisgo_obj.electromobility.eta_charging_points (percent)
    topology_id,             \* edisgo_obj.topology.id
    pc,                      \* "private", "public", "done" or "error"
    pos,                     \* iterations of the running loop already made
    rng,                     \* the generator of the running phase
    charging_point_id,       \* local of distribute_private_charging_demand
    charging_park_id,        \* local of distribute_private_charging_demand
    designated_charging_point_capacity_df,
    available_charging_points_df,
    draws,                   \* what each generator has returned so far
    last,                    \* the step just made
    run,                     \* 1: first call, 2: the call repeated
    first_run,               \* the matching columns the first call left
    files,                   \* the sorted CSV files under csv_path
    mode,                    \* kwarg mode_parking_times
    simbev_config_file,      \* kwarg simbev_config_file
    config_on_disk,          \* what is at os.path.join(path, simbev_config_file)
    simbev_config_df,        \* edisgo_obj.electromobility.simbev_config_df
    kwargs,                  \* the keyword arguments import_simbev_electromobility
                             \* has not popped
    use_case_gdf,            \* local of read_gpkg_grid_connections
    num_gcs,                 \* local of read_gpkg_grid_connections
    pfa_p,                   \* Results._pfa_p
    pfa_q,                   \* Results._pfa_q
    pfa_v_mag_pu,            \* Results._pfa_v_mag_pu
    pypsa,                   \* the argument of the latest setter call
    total_charging_point_capacity,   \* argument of
                             \* determine_grid_connection_capacity
    grid_connection_capacity,\* what determine_grid_connection_capacity returned
    distribution_kwargs,     \* the kwargs of distribute_charging_demand
    lv_grids_df,             \* edisgo_obj.topology.lv_grids_df
    potential_charging_parks_df  \* per park: nearest_substation["lv_grid_id"]
                             \* and _potential_charging_parks_df.distance_weight

\* What import_simbev_electromobility works on; distribute_charging_demand
\* leaves it alone.
import_vars == <<files, mode, simbev_config_file, config_on_disk,
                 simbev_config_df, kwargs, use_case_gdf, num_gcs>>

\* The power flow results of a Results object.
results_vars == <<pfa_p, pfa_q, pfa_v_mag_pu, pypsa>>

\* determine_grid_connection_capacity: its argument and what it returned.
capacity_vars == <<total_charging_point_capacity, grid_connection_capacity>>

\* What distribute_charging_demand works on, the tables apart.
allocation_vars == <<eta_charging_points, topology_id, rng, charging_point_id,
                     charging_park_id, designated_charging_point_capacity_df,
                     available_charging_points_df, draws, run, first_run>>

\* What get_weights_df reads besides the grid connections.
friendly_vars == <<distribution_kwargs, lv_grids_df, potential_charging_parks_df>>

\* What import_simbev_electromobility leaves alone.
distribution_vars == <<allocation_vars, results_vars, capacity_vars,
                       friendly_vars>>

vars == <<charging_processes_df, grid_connections_gdf, eta_charging_points,
          topology_id, pc, pos, rng, charging_point_id, charging_park_id,
          designated_charging_point_capacity_df, available_charging_points_df,
          draws, last, run, first_run, import_vars, results_vars,
          capacity_vars, friendly_vars>>

\* What distribute_charging_demand leaves alone.
inputs == <<grid_connections_gdf, eta_charging_points, topology_id, import_vars,
            results_vars, capacity_vars, friendly_vars>>

Index(df) == DOMAIN df

NoStep == [op |-> "none", idx |-> NaN, point |-> NaN, park |-> NaN, matching |-> {}]

\* default_rng(seed): a generator is its seed and the number of draws made.
default_rng(seed) == [seed |-> seed, n |-> 0]

None == [seed |-> NaN, n |-> 0]

\* try: default_rng(seed=edisgo_obj.topology.id) / except: the fallback.
SeededRng(fallback) == IF topology_id = BadId THEN fallback
                       ELSE default_rng(topology_id)

ZeroCapacity == [i \in Index(grid_connections_gdf) |-> 0]

\* ------------------------------------------------------------------ weights
\* kwargs.get(key, default)
KwGet(kw, key, default) == IF key \in DOMAIN kw THEN kw[key] ELSE default

\* No keyword arguments.
NoKwargs == [key \in {} |-> ""]

\* Mutant: the private phase hands the caller's kwargs on.
PrivateKwargs_AsPassed == distribution_kwargs

\* The kwargs distribute_private_charging_demand gives get_weights_df: none.
PrivateKwargs == NoKwargs

\* get_weights_df, as a frame labelled 0 .. n-1. Mode "user_friendly": the
\* user centric weights of the parks whose id is in the given indices. Mode
\* "grid_friendly": for every park the weights of its LV grid and its
\* distance weight, combined with the user centric weights. The three factors
\* are 0 or 1 here (their defaults 0.5 and 1/3 lie off the integer grid of
\* the weights), so a grid friendly call names all three.
get_weights_df(grid_connections_indices, kw) ==
    LET a == Ascending(grid_connections_indices)
        user_friendly_weights ==
            [k \in 1..Len(a) |-> grid_connections_gdf[a[k]].user_centric_weight]
        generators_weight_factor == kw["generators_weight_factor"]
        loads_weight_factor == 1 - generators_weight_factor
        combined_weights(lv_grid_id) ==
            generators_weight_factor * lv_grids_df[lv_grid_id].generators_weight
                + loads_weight_factor * lv_grids_df[lv_grid_id].loads_weight
        parks == Table(potential_charging_parks_df)
        grid_friendly_weights ==
            [i \in 1..Len(parks) |->
                (1 - kw["distance_weight"])
                        * combined_weights(parks[i].lv_grid_id)
                    + kw["distance_weight"] * parks[i].distance_weight]
    IN IF KwGet(kw, "mode", "user_friendly") = "user_friendly"
       THEN Frame(user_friendly_weights)
       ELSE Frame([i \in 1..Len(grid_friendly_weights) |->
                      (1 - kw["user_friendly_weight"]) * grid_friendly_weights[i]
                          + kw["user_friendly_weight"]
                                * user_friendly_weights[i]])

\* What normalize returns for a frame that sums to 0: np.array(<generator>),
\* a 0-d object array and no array of probabilities.
ObjectArray == <<NaN>>

\* normalize: the weights (a tuple of numerators) divided by their sum. The
\* quotients are held as the numerators reduced by their gcd over their sum.
normalize(weights) ==
    IF SeqSum(weights) = 0 THEN ObjectArray
    ELSE LET g == SeqGCD(weights)
         IN [k \in 1..Len(weights) |-> weights[k] \div g]

\* min_max_scaler.fit_transform of one column, times (max - min); a constant
\* column scales to 0.
MinMaxRange(values) ==
    LET S == {values[k] : k \in 1..Len(values)}
    IN SetMax(S) - SetMin(S)

\* Mutant: a constant column scales to 1.
fit_transform_ConstantToOne(values) ==
    LET S == {values[k] : k \in 1..Len(values)}
    IN [k \in 1..Len(values) |->
           IF MinMaxRange(values) = 0 THEN [num |-> 1, den |-> 1]
           ELSE [num |-> values[k] - SetMin(S), den |-> MinMaxRange(values)]]

\* min_max_scaler.fit_transform of one column: (value - min) / (max - min),
\* held as num / den; the scaler divides a constant column by 1.
fit_transform(values) ==
    LET S == {values[k] : k \in 1..Len(values)}
    IN [k \in 1..Len(values) |->
           IF MinMaxRange(values) = 0 THEN [num |-> 0, den |-> 1]
           ELSE [num |-> values[k] - SetMin(S), den |-> MinMaxRange(values)]]

\* capacity_weights = 1 - min_max_scaler.fit_transform(capacity), for the
\* designated capacities of the selected grid connections.
capacity_weights(grid_connections_indices, capacity_df) ==
    LET a == Ascending(grid_connections_indices)
        scaled == fit_transform([k \in 1..Len(a) |-> capacity_df[a[k]]])
    IN [k \in 1..Len(a) |->
           [num |-> scaled[k].den - scaled[k].num, den |-> scaled[k].den]]

\* combine_weights, for a non-empty selection: weight + capacity weight, as
\* numerators over WScale times the capacity weights' denominator, then
\* normalize.
combine_weights(grid_connections_indices, capacity_df, weights_df) ==
    LET a == Ascending(grid_connections_indices)
        penalty == capacity_weights(grid_connections_indices, capacity_df)
        user_df == [k \in 1..Len(a) |->
                       weights_df[a[k]] * penalty[k].den
                           + WScale * penalty[k].num]
    IN normalize(user_df)

\* Mutant: a generator without a seed; no draw repeats an earlier one.
RngChoiceUnseeded(g, a, p) == {a[k] : k \in {j \in 1..Len(a) : p[j] > 0}}

\* rng.choice(a, p): the values the generator may return. A generator is a
\* function of its seed, so a draw it made before (same seed, same position,
\* same arguments) returns what it returned then; any other draw returns a
\* value of positive probability.
RngChoice(g, a, p) ==
    LET known == {e \in draws : e.seed = g.seed /\ e.n = g.n
                                 /\ e.a = a /\ e.p = p}
    IN IF known # {} THEN {e.out : e \in known}
       ELSE {a[k] : k \in {j \in 1..Len(a) : p[j] > 0}}

Drawn(g, a, p, out) ==
    draws \cup {[seed |-> g.seed, n |-> g.n, a |-> a, p |-> p, out |-> out]}

Advance(g) == [g EXCEPT !.n = @ + 1]

\* ------------------------------------------------------------ private phase
\* Mutant: the rows of the car, whatever the destination.
ChoiceMaskCarOnly(df, car_id, destination) ==
    {i \in Index(df) : df[i].car_id = car_id}

\* The rows weighted_random_choice selects: car and destination, whatever the
\* use case.
ChoiceMask(df, car_id, destination) ==
    {i \in Index(df) : df[i].car_id = car_id /\ df[i].destination = destination}

\* Mutant: every selected row becomes the first selected row, assigned.
AssignChoiceFirstRow(df, car_id, destination, park, point) ==
    [i \in Index(df) |->
        IF i \in ChoiceMask(df, car_id, destination)
        THEN [df[SetMin(ChoiceMask(df, car_id, destination))]
                 EXCEPT !.charging_park_id = park, !.charging_point_id = point]
        ELSE df[i]]

\* weighted_random_choice: the selected rows, with the two columns assigned.
AssignChoice(df, car_id, destination, park, point) ==
    [i \in Index(df) |->
        IF i \in ChoiceMask(df, car_id, destination)
        THEN [df[i] EXCEPT !.charging_park_id = park, !.charging_point_id = point]
        ELSE df[i]]

private_charging_df == {i \in Index(charging_processes_df) :
                           charging_processes_df[i].use_case = "private"}

\* One item per iteration of the innermost loops, as a sort key: destination
\* (sorted), ags (sorted, home only), car_id (sorted). A destination outside
\* PRIVATE_DESTINATIONS ends the loop where it is reached.
PrivateItem(i) ==
    LET r == charging_processes_df[i]
    IN IF r.destination \notin DOMAIN PRIVATE_DESTINATIONS
       THEN <<DestRank(r.destination), 0, 0>>
       ELSE IF PRIVATE_DESTINATIONS[r.destination] = "work"
       THEN <<DestRank(r.destination), 0, r.car_id>>
       ELSE <<DestRank(r.destination), r.ags, r.car_id>>

KeyLess(x, y) == \/ x[1] < y[1]
                 \/ x[1] = y[1] /\ x[2] < y[2]
                 \/ x[1] = y[1] /\ x[2] = y[2] /\ x[3] < y[3]

RECURSIVE SortKeys(_)
SortKeys(S) == IF S = {} THEN << >>
               ELSE LET m == CHOOSE x \in S : \A y \in S \ {x} : KeyLess(x, y)
                    IN <<m>> \o SortKeys(S \ {m})

PrivateSchedule == SortKeys({PrivateItem(i) : i \in private_charging_df})

DestinationOf(item) ==
    CHOOSE d \in {charging_processes_df[i].destination : i \in private_charging_df} :
        DestRank(d) = item[1]

\* private_charging_destination_df.loc[car, destination]
\*     .grid_charging_capacity_kW.iat[0]
FirstCapacity(car_id, destination) ==
    LET rows == {i \in private_charging_df :
                    /\ charging_processes_df[i].car_id = car_id
                    /\ charging_processes_df[i].destination = destination}
    IN charging_processes_df[SetMin(rows)].grid_charging_capacity_kW

\* Mutant: no selection by use case.
AnyUseCaseIndices(use_case) == Index(grid_connections_gdf)

UseCaseIndices(use_case) ==
    {i \in Index(grid_connections_gdf) : grid_connections_gdf[i].use_case = use_case}

\* Mutant: no selection by ags.
UseCaseAnyAgsIndices(use_case, ags) == UseCaseIndices(use_case)

UseCaseAgsIndices(use_case, ags) ==
    {i \in UseCaseIndices(use_case) : grid_connections_gdf[i].ags = ags}

\* Mutant: -= instead of +=.
SubtractCapacity(capacity_df, park, capacity) ==
    [capacity_df EXCEPT ![park] = @ - capacity]

\* designated_charging_point_capacity_df.at[park, ...] += capacity
AddCapacity(capacity_df, park, capacity) ==
    [capacity_df EXCEPT ![park] = @ + capacity]

Raise(what) ==
    /\ pc' = "error"
    /\ last' = [NoStep EXCEPT !.op = what]

\* The generator weighted_random_choice draws from: the phase's, or
\* default_rng(seed=charging_point_id) when there is none.
ChoiceRng == IF rng = None THEN default_rng(charging_point_id) ELSE rng

\* if use_case == "work": one iteration of the loop over the cars.
WorkDraw ==
    /\ pc = "private"
    /\ pos < Len(PrivateSchedule)
    /\ LET item == PrivateSchedule[pos + 1]
           destination == DestinationOf(item)
           car_id == item[3]
       IN /\ destination \in DOMAIN PRIVATE_DESTINATIONS
          /\ PRIVATE_DESTINATIONS[destination] = "work"
          /\ LET grid_connections_indices == UseCaseIndices("work")
                 a == Ascending(grid_connections_indices)
                 weights == combine_weights(
                                grid_connections_indices,
                                designated_charging_point_capacity_df,
                                get_weights_df(Index(grid_connections_gdf),
                                               PrivateKwargs))
             IN \E park \in RngChoice(ChoiceRng, a, weights) :
                 /\ charging_processes_df' =
                        AssignChoice(charging_processes_df, car_id, destination,
                                     park, charging_point_id)
                 /\ draws' = Drawn(ChoiceRng, a, weights, park)
                 /\ rng' = IF rng = None THEN None ELSE Advance(rng)
                 /\ charging_park_id' = park
                 /\ designated_charging_point_capacity_df' =
                        AddCapacity(designated_charging_point_capacity_df, park,
                                    FirstCapacity(car_id, destination) * 100)
                 /\ last' = [NoStep EXCEPT !.op = "work", !.idx = car_id,
                                           !.point = charging_point_id,
                                           !.park = park]
          /\ charging_point_id' = charging_point_id + 1
          /\ pos' = pos + 1
          /\ pc' = pc
    /\ UNCHANGED <<inputs, available_charging_points_df, run, first_run>>

\* elif use_case == "home": one iteration of the loop over the cars of an ags.
\* The park drawn is written to the rows but not kept: the capacity goes to
\* whatever charging_park_id holds.
HomeDraw ==
    /\ pc = "private"
    /\ pos < Len(PrivateSchedule)
    /\ LET item == PrivateSchedule[pos + 1]
           destination == DestinationOf(item)
           ags == item[2]
           car_id == item[3]
           grid_connections_indices == UseCaseAgsIndices("home", ags)
           a == Ascending(grid_connections_indices)
       IN /\ destination \in DOMAIN PRIVATE_DESTINATIONS
          /\ PRIVATE_DESTINATIONS[destination] = "home"
          /\ \/ /\ grid_connections_indices = {}
                /\ Raise("ValueError")
                /\ UNCHANGED <<charging_processes_df, draws, rng,
                               designated_charging_point_capacity_df,
                               charging_point_id, pos>>
             \/ /\ grid_connections_indices # {}
                /\ LET weights == combine_weights(
                                      grid_connections_indices,
                                      designated_charging_point_capacity_df,
                                      get_weights_df(
                                          Index(grid_connections_gdf),
                                          PrivateKwargs))
                   IN \E park \in RngChoice(ChoiceRng, a, weights) :
                       /\ charging_processes_df' =
                              AssignChoice(charging_processes_df, car_id,
                                           destination, park, charging_point_id)
                       /\ draws' = Drawn(ChoiceRng, a, weights, park)
                       /\ rng' = IF rng = None THEN None ELSE Advance(rng)
                       /\ IF charging_park_id = Unbound
                          THEN /\ Raise("UnboundLocalError")
                               /\ UNCHANGED <<designated_charging_point_capacity_df,
                                              charging_point_id, pos>>
                          ELSE /\ designated_charging_point_capacity_df' =
                                      AddCapacity(
                                          designated_charging_point_capacity_df,
                                          charging_park_id,
                                          FirstCapacity(car_id, destination)
                                              * eta_charging_points)
                               /\ charging_point_id' = charging_point_id + 1
                               /\ pos' = pos + 1
                               /\ pc' = pc
                               /\ last' = [NoStep EXCEPT !.op = "home",
                                               !.idx = car_id,
                                               !.point = charging_point_id,
                                               !.park = park]
    /\ UNCHANGED <<inputs, charging_park_id, available_charging_points_df,
                   run, first_run>>

\* use_case = PRIVATE_DESTINATIONS[destination] for a destination that is no
\* key: KeyError, out of distribute_charging_demand.
UnknownDestination ==
    /\ pc = "private"
    /\ pos < Len(PrivateSchedule)
    /\ DestinationOf(PrivateSchedule[pos + 1]) \notin DOMAIN PRIVATE_DESTINATIONS
    /\ Raise("KeyError")
    /\ UNCHANGED <<inputs, charging_processes_df, pos, rng, charging_point_id,
                   charging_park_id, designated_charging_point_capacity_df,
                   available_charging_points_df, draws, run, first_run>>

\* ------------------------------------------------------------- public phase
EmptyFrame == [k \in {} |-> NaN]

\* Mutant: the public phase goes on with the capacities of the private phase.
StartPublic_KeepCapacities ==
    /\ pc = "private"
    /\ pos = Len(PrivateSchedule)
    /\ pc' = "public"
    /\ pos' = 0
    /\ rng' = SeededRng(default_rng(1))
    /\ available_charging_points_df' = EmptyFrame
    /\ last' = [NoStep EXCEPT !.op = "start_public"]
    /\ UNCHANGED <<inputs, charging_processes_df, charging_point_id,
                   charging_park_id, draws, run, first_run,
                   designated_charging_point_capacity_df>>

\* distribute_private_charging_demand returns; distribute_public_charging_demand
\* sets up its generator, its availability table and its capacities.
StartPublic ==
    /\ pc = "private"
    /\ pos = Len(PrivateSchedule)
    /\ pc' = "public"
    /\ pos' = 0
    /\ rng' = SeededRng(default_rng(1))
    /\ available_charging_points_df' = EmptyFrame
    /\ designated_charging_point_capacity_df' = ZeroCapacity
    /\ last' = [NoStep EXCEPT !.op = "start_public"]
    /\ UNCHANGED <<inputs, charging_processes_df, charging_point_id,
                   charging_park_id, draws, run, first_run>>

\* Mutant: the public rows in the order of the frame.
public_charging_df_FrameOrder ==
    Ascending({j \in Index(charging_processes_df) :
                  charging_processes_df[j].use_case = "public"})

\* public_charging_df: the labels of the public rows, sorted by
\* park_start_timesteps, then park_end_timesteps (rows that tie keep the
\* order of the frame).
public_charging_df ==
    LET keys == {<<charging_processes_df[i].park_start_timesteps,
                   charging_processes_df[i].park_end_timesteps, i>> :
                    i \in {j \in Index(charging_processes_df) :
                              charging_processes_df[j].use_case = "public"}}
        sorted == SortKeys(keys)
    IN [k \in 1..Len(sorted) |-> sorted[k][3]]

\* Mutant: <= instead of <.
MatchingChargingPointsNotStrict(available, row) ==
    {k \in Index(available) :
        /\ available[k].park_end_timesteps # NaN
        /\ available[k].park_end_timesteps <= row.park_end_timesteps
        /\ available[k].grid_charging_capacity_kW # NaN
        /\ Round1(available[k].grid_charging_capacity_kW)
               = Round1(row.grid_charging_capacity_kW)}

\* matching_charging_points_df: the labels of the availability records that
\* end before the row ends and whose power rounds to the row's.
MatchingChargingPoints(available, row) ==
    {k \in Index(available) :
        /\ available[k].park_end_timesteps # NaN
        /\ available[k].park_end_timesteps < row.park_end_timesteps
        /\ available[k].grid_charging_capacity_kW # NaN
        /\ Round1(available[k].grid_charging_capacity_kW)
               = Round1(row.grid_charging_capacity_kW)}

\* available_charging_points_df.at[label, "park_end_timesteps"] = value: a
\* label that is no row yet becomes a row of empty cells.
SetParkEnd(available, label, value) ==
    [k \in Index(available) \cup {label} |->
        IF k = label
        THEN IF label \in Index(available)
             THEN [available[k] EXCEPT !.park_end_timesteps = value]
             ELSE [park_end_timesteps |-> value,
                   grid_charging_capacity_kW |-> NaN,
                   charging_park_id |-> NaN, use_case |-> "NaN"]
        ELSE available[k]]

\* charging_processes_df.charging_point_id.max() + 1, and 0 for a NaN.
NextChargingPointId(df) ==
    LET ids == {df[i].charging_point_id : i \in Index(df)} \ {NaN}
    IN IF ids = {} THEN 0 ELSE SetMax(ids) + 1

\* available_charging_points_df.loc[charging_point_id] = the row's cells
AddChargingPoint(available, point, row) ==
    [k \in Index(available) \cup {point} |->
        IF k = point
        THEN [park_end_timesteps |-> row.park_end_timesteps,
              grid_charging_capacity_kW |-> row.grid_charging_capacity_kW,
              charging_park_id |-> row.charging_park_id,
              use_case |-> row.use_case]
        ELSE available[k]]

\* Mutant: the charging point id is not written.
AssignRowParkOnly(df, idx, park, point) ==
    [df EXCEPT ![idx].charging_park_id = park]

\* charging_processes_df.at[idx, ...] = park, point
AssignRow(df, idx, park, point) ==
    [df EXCEPT ![idx].charging_park_id = park, ![idx].charging_point_id = point]

\* if len(matching_charging_points_df) > 0: the weights are looked up under
\* the labels of the matching points (a label that is no label of the weights
\* is a KeyError, weights that sum to 0 leave rng.choice an object array: a
\* TypeError), the row's label gets the end step.
PublicReuse ==
    /\ pc = "public"
    /\ pos < Len(public_charging_df)
    /\ LET idx == public_charging_df[pos + 1]
           row == charging_processes_df[idx]
           grid_connections_indices ==
               MatchingChargingPoints(available_charging_points_df, row)
           a == Ascending(grid_connections_indices)
           weights_df == get_weights_df(Index(grid_connections_gdf),
                                        distribution_kwargs)
       IN /\ grid_connections_indices # {}
          /\ \/ /\ \/ ~(grid_connections_indices \subseteq Index(weights_df))
                   \/ normalize([k \in 1..Len(a) |-> weights_df[a[k]]])
                          = ObjectArray
                /\ Raise(IF grid_connections_indices \subseteq Index(weights_df)
                         THEN "TypeError" ELSE "KeyError")
                /\ UNCHANGED <<charging_processes_df, pos, rng, draws,
                               available_charging_points_df>>
             \/ /\ grid_connections_indices \subseteq Index(weights_df)
                /\ LET weights == normalize([k \in 1..Len(a) |-> weights_df[a[k]]])
                   IN /\ weights # ObjectArray
                      /\ \E point \in RngChoice(rng, a, weights) :
                          /\ charging_processes_df' =
                                 AssignRow(charging_processes_df, idx,
                                           available_charging_points_df[point]
                                               .charging_park_id,
                                           point)
                          /\ draws' = Drawn(rng, a, weights, point)
                          /\ last' = [op |-> "reuse", idx |-> idx, point |-> point,
                                      park |-> available_charging_points_df[point]
                                                   .charging_park_id,
                                      matching |-> grid_connections_indices]
                      /\ rng' = Advance(rng)
                      /\ available_charging_points_df' =
                             SetParkEnd(available_charging_points_df, idx,
                                        row.park_end_timesteps)
                      /\ pos' = pos + 1
                      /\ pc' = pc
    /\ UNCHANGED <<inputs, charging_point_id, charging_park_id,
                   designated_charging_point_capacity_df, run, first_run>>

\* else: a park of the destination's use case is drawn and a new charging
\* point id is made.
PublicMint ==
    /\ pc = "public"
    /\ pos < Len(public_charging_df)
    /\ LET idx == public_charging_df[pos + 1]
           row == charging_processes_df[idx]
           use_case == PUBLIC_DESTINATIONS[row.destination]
           grid_connections_indices == UseCaseIndices(use_case)
           a == Ascending(grid_connections_indices)
           weights == combine_weights(
                          grid_connections_indices,
                          designated_charging_point_capacity_df,
                          get_weights_df(Index(grid_connections_gdf),
                                         distribution_kwargs))
           point == NextChargingPointId(charging_processes_df)
       IN /\ MatchingChargingPoints(available_charging_points_df, row) = {}
          /\ \E park \in RngChoice(rng, a, weights) :
              /\ charging_processes_df' =
                     AssignRow(charging_processes_df, idx, park, point)
              /\ draws' = Drawn(rng, a, weights, park)
              /\ available_charging_points_df' =
                     AddChargingPoint(available_charging_points_df, point,
                                      charging_processes_df'[idx])
              /\ designated_charging_point_capacity_df' =
                     AddCapacity(designated_charging_point_capacity_df, park,
                                 row.grid_charging_capacity_kW
                                     * eta_charging_points)
              /\ last' = [op |-> "mint", idx |-> idx, point |-> point,
                          park |-> park, matching |-> {}]
          /\ rng' = Advance(rng)
          /\ pos' = pos + 1
          /\ pc' = pc
    /\ UNCHANGED <<inputs, charging_point_id, charging_park_id, run, first_run>>

\* The loop over the public rows ends: distribute_charging_demand returns.
Return ==
    /\ pc = "public"
    /\ pos = Len(public_charging_df)
    /\ pc' = "done"
    /\ last' = [NoStep EXCEPT !.op = "return"]
    /\ UNCHANGED <<inputs, charging_processes_df, pos, rng, charging_point_id,
                   charging_park_id, designated_charging_point_capacity_df,
                   available_charging_points_df, draws, run, first_run>>

\* ------------------------------------------------------------ the two calls
Matching(df) == [i \in Index(df) |->
                    [charging_park_id |-> df[i].charging_park_id,
                     charging_point_id |-> df[i].charging_point_id]]

Cleared(df) == [i \in Index(df) |->
                   [df[i] EXCEPT !.charging_park_id = NaN,
                                 !.charging_point_id = NaN]]

NoResult == [ended |-> "none", matching |-> EmptyFrame]

Result == [ended |-> pc, matching |-> Matching(charging_processes_df)]

\* import_simbev_electromobility has returned: its arguments and the locals
\* of its functions are gone.
NoFileName == "None"

\* Python's None: what a function that ends without a return statement
\* returns.
PyNone == [none |-> TRUE]

\* simbev_config_df before read_csv_simbev_config has set it.
NotRead == [read |-> FALSE]

Imported ==
    /\ files = << >>
    /\ mode = "frugal"
    /\ simbev_config_file = NoFileName
    /\ config_on_disk = "absent"
    /\ simbev_config_df = NotRead
    /\ kwargs = {}
    /\ use_case_gdf = << >>
    /\ num_gcs = 0

\* No Results object is in use and determine_grid_connection_capacity is not
\* called.
Elsewhere ==
    /\ pfa_p = PyNone
    /\ pfa_q = PyNone
    /\ pfa_v_mag_pu = PyNone
    /\ pypsa = PyNone
    /\ total_charging_point_capacity = 0
    /\ grid_connection_capacity = PyNone

\* distribute_charging_demand is called without kwargs: the grid friendly
\* inputs are not read.
UserFriendly ==
    /\ distribution_kwargs = NoKwargs
    /\ lv_grids_df = EmptyFrame
    /\ potential_charging_parks_df = EmptyFrame

\* What distribute_charging_demand sets up before its first loop.
Enter ==
    /\ pc' = "private"
    /\ pos' = 0
    /\ rng' = SeededRng(None)
    /\ charging_point_id' = 0
    /\ charging_park_id' = Unbound
    /\ designated_charging_point_capacity_df' = ZeroCapacity
    /\ available_charging_points_df' = EmptyFrame
    /\ last' = NoStep

\* distribute_charging_demand is called once more, on the tables as they were
\* before the first call and with the same topology.
CallAgain ==
    /\ pc \in {"done", "error"}
    /\ run = 1
    /\ run' = 2
    /\ first_run' = Result
    /\ charging_processes_df' = Cleared(charging_processes_df)
    /\ Enter
    /\ UNCHANGED <<inputs, draws>>

Init ==
    /\ \E t \in ProcessTables, g \in GridConnectionTables :
        /\ EnoughGridConnections(t, g)
        /\ charging_processes_df = Frame(t)
        /\ grid_connections_gdf = Frame(g)
    /\ eta_charging_points \in EtaValues
    /\ topology_id \in TopologyIds
    /\ pc = "private"
    /\ pos = 0
    /\ rng = SeededRng(None)
    /\ charging_point_id = 0
    /\ charging_park_id = Unbound
    /\ designated_charging_point_capacity_df = ZeroCapacity
    /\ available_charging_points_df = EmptyFrame
    /\ draws = {}
    /\ last = NoStep
    /\ run = 1
    /\ first_run = NoResult
    /\ Imported
    /\ Elsewhere
    /\ UserFriendly

Next ==
    \/ WorkDraw
    \/ HomeDraw
    \/ UnknownDestination
    \/ StartPublic
    \/ PublicReuse
    \/ PublicMint
    \/ Return
    \/ CallAgain

Spec == Init /\ [][Next]_vars

\* ---------------------------------------------- the two calls, with kwargs
\* The kwargs of a call: none but the mode, or mode "grid_friendly" with the
\* three factors.
ModeKwargs ==
    {[mode |-> "user_friendly"]}
    \cup {[mode |-> "grid_friendly", generators_weight_factor |-> g,
           distance_weight |-> d, user_friendly_weight |-> u] :
              g \in {0, 1}, d \in {0, 1}, u \in {0, 1}}

\* Tables with private and public rows of one car and of two.
ModeProcessTables ==
    {<<ProcessRow(0, "0_work", "private", 1100, 0, 2),
       ProcessRow(0, "6_home", "private", 1100, 0, 2),
       ProcessRow(0, "3_shopping", "public", 1100, 0, 1)>>,
     <<ProcessRow(0, "0_work", "private", 1100, 0, 2),
       ProcessRow(0, "3_shopping", "public", 1100, 0, 1),
       ProcessRow(1, "7_charging_hub", "public", 1100, 1, 2)>>,
     <<ProcessRow(0, "6_home", "private", 1100, 0, 2),
       ProcessRow(0, "0_work", "public", 1100, 0, 2),
       ProcessRow(1, "6_home", "private", 1100, 0, 2)>>}

\* Two LV grids: one with generators, one with loads.
LvGrids ==
    [lv_grid_id \in {1, 2} |->
        [generators_weight |-> IF lv_grid_id = 1 THEN WScale ELSE 0,
         loads_weight |-> IF lv_grid_id = 1 THEN 0 ELSE WScale]]

\* The parks of n grid connections: their LV grids alternate one by one or
\* two by two, every third park is far from its substation.
PotentialChargingParks(n, by) ==
    Frame([i \in 1..n |->
              [lv_grid_id |-> 1 + (((i - 1) \div by) % 2),
               distance_weight |-> IF (i - 1) % 3 = 0 THEN WScale ELSE 0]])

\* The call is repeated on the tables as they were, with other kwargs.
CallAgainWithOtherKwargs ==
    /\ pc \in {"done", "error"}
    /\ run = 1
    /\ run' = 2
    /\ first_run' = Result
    /\ charging_processes_df' = Cleared(charging_processes_df)
    /\ distribution_kwargs' \in ModeKwargs \ {distribution_kwargs}
    /\ Enter
    /\ UNCHANGED <<grid_connections_gdf, eta_charging_points, topology_id,
                   import_vars, results_vars, capacity_vars, lv_grids_df,
                   potential_charging_parks_df, draws>>

ModeInit ==
    /\ \E t \in ModeProcessTables, g \in GridConnectionTables :
        /\ EnoughGridConnections(t, g)
        /\ charging_processes_df = Frame(t)
        /\ grid_connections_gdf = Frame(g)
        /\ \E by \in {1, 2} :
               potential_charging_parks_df = PotentialChargingParks(Len(g), by)
    /\ lv_grids_df = LvGrids
    /\ distribution_kwargs \in ModeKwargs
    /\ eta_charging_points \in EtaValues
    /\ topology_id \in TopologyIds
    /\ pc = "private"
    /\ pos = 0
    /\ rng = SeededRng(None)
    /\ charging_point_id = 0
    /\ charging_park_id = Unbound
    /\ designated_charging_point_capacity_df = ZeroCapacity
    /\ available_charging_points_df = EmptyFrame
    /\ draws = {}
    /\ last = NoStep
    /\ run = 1
    /\ first_run = NoResult
    /\ Imported
    /\ Elsewhere

ModeNext ==
    \/ WorkDraw
    \/ HomeDraw
    \/ StartPublic
    \/ PublicReuse
    \/ PublicMint
    \/ Return
    \/ CallAgainWithOtherKwargs

ModeSpec == ModeInit /\ [][ModeNext]_vars

\* ------------------------------------------------------------------ import
\* df.append(rows, ignore_index=True)
AppendRows(df, rows) == Frame(Table(df) \o rows)

\* int(np.ceil(a / b)) for a >= 0 and b > 0
Ceil(a, b) == (a + b - 1) \div b

\* --------------------- read_csvs_charging_processes, read_csv_simbev_config
MaxFiles == 3        \* CSV files under csv_path

\* One row of a SimBEV CSV file, the column location read as destination.
CsvRow(dest, uc, demand, s, e) ==
    [destination |-> dest, use_case |-> uc, grid_charging_capacity_kW |-> 1100,
     chargingdemand_kWh |-> demand, park_start_timesteps |-> s,
     park_end_timesteps |-> e]

\* What a CSV file may be: its directory two levels up (f.parts[-3]) and its
\* rows, or "unreadable" for a file pd.read_csv raises on. A file that cannot
\* be parsed; a file under a directory whose name is no number; a file of one
\* charging row; a file of a parking row without demand and a charging row.
FileKinds ==
    {[dir |-> "1", rows |-> "unreadable"],
     [dir |-> "simbev_run", rows |-> <<CsvRow("6_home", "private", 5, 0, 96)>>],
     [dir |-> "1", rows |-> <<CsvRow("0_work", "private", 5, 0, 96)>>],
     [dir |-> "2", rows |-> <<CsvRow("3_shopping", "public", 0, 0, 200),
                              CsvRow("6_home", "private", 5, 1, 97)>>]}

\* os.walk finds the files in any order; their paths differ (a path is held
\* as its rank in str order).
WalkResults ==
    {w \in UNION {[1..n -> [path : 1..MaxFiles, file : FileKinds]] :
                     n \in 0..MaxFiles} :
        /\ \A i, j \in 1..Len(w) : i # j => w[i].path # w[j].path
        /\ \A i \in 1..Len(w) : w[i].path <= Len(w)}

\* files.sort()
SortedFiles(w) ==
    [k \in 1..Len(w) |-> w[CHOOSE i \in 1..Len(w) : w[i].path = k]]

\* int(f.parts[-3])
IsNumber(dir) == dir \in {"1", "2"}

IntOf(dir) == IF dir = "1" THEN 1 ELSE 2

\* astype(np.uint16)
AsUint16(x) == x % 65536

\* if mode == "frugal": df.loc[df["chargingdemand_kWh"] > 0]
ModeFilter(rows) ==
    IF mode = "frugal" THEN SelectSeq(rows, LAMBDA r : r.chargingdemand_kWh > 0)
    ELSE rows

\* Mutant: car_id counts the files read so far, not the files seen.
car_id_of_files_read ==
    Cardinality({charging_processes_df[i].car_id :
                    i \in Index(charging_processes_df)})

\* for car_id, f in enumerate(files): the car_id of the file at hand.
enumerate_car_id == pos

\* df.assign(ags=..., car_id=car_id), the columns cast to DTYPES
AssignAgsAndCar(rows, ags, car) ==
    [k \in 1..Len(rows) |->
        [ags |-> ags, car_id |-> car,
         destination |-> rows[k].destination, use_case |-> rows[k].use_case,
         grid_charging_capacity_kW |-> rows[k].grid_charging_capacity_kW,
         chargingdemand_kWh |-> rows[k].chargingdemand_kWh,
         park_start_timesteps |-> AsUint16(rows[k].park_start_timesteps),
         park_end_timesteps |-> AsUint16(rows[k].park_end_timesteps)]]

\* The body of the try fails: the file cannot be read, or its directory is
\* no number.
FailsToRead(file) == file.rows = "unreadable" \/ ~IsNumber(file.dir)

\* The files are collected and sorted; no file is a ValueError.
ListFiles ==
    /\ pc = "read_csvs"
    /\ \/ /\ files = << >>
          /\ Raise("ValueError")
          /\ UNCHANGED <<files, charging_processes_df, pos>>
       \/ /\ files # << >>
          /\ files' = SortedFiles(files)
          /\ charging_processes_df' = EmptyFrame
          /\ pos' = 0
          /\ pc' = "for_file"
          /\ last' = [NoStep EXCEPT !.op = "list_files"]
    /\ UNCHANGED <<grid_connections_gdf, distribution_vars, mode,
                   simbev_config_file, config_on_disk, simbev_config_df,
                   kwargs, use_case_gdf, num_gcs>>

\* One iteration of the loop over the files: the rows are appended, or the
\* file is skipped with a warning.
ReadFile ==
    /\ pc = "for_file"
    /\ pos < Len(files)
    /\ LET f == files[pos + 1].file
       IN IF FailsToRead(f)
          THEN /\ last' = [NoStep EXCEPT !.op = "skipped", !.idx = pos]
               /\ UNCHANGED charging_processes_df
          ELSE /\ charging_processes_df' =
                      AppendRows(charging_processes_df,
                                 AssignAgsAndCar(ModeFilter(f.rows),
                                                 IntOf(f.dir), enumerate_car_id))
               /\ last' = [NoStep EXCEPT !.op = "read", !.idx = pos]
    /\ pos' = pos + 1
    /\ UNCHANGED <<pc, grid_connections_gdf, distribution_vars, import_vars>>

\* pd.merge with the empty matching columns; read_csvs_charging_processes
\* returns.
MergeMatchingColumns ==
    /\ pc = "for_file"
    /\ pos = Len(files)
    /\ charging_processes_df' =
           [i \in Index(charging_processes_df) |->
               [ags |-> charging_processes_df[i].ags,
                car_id |-> charging_processes_df[i].car_id,
                destination |-> charging_processes_df[i].destination,
                use_case |-> charging_processes_df[i].use_case,
                grid_charging_capacity_kW |->
                    charging_processes_df[i].grid_charging_capacity_kW,
                chargingdemand_kWh |-> charging_processes_df[i].chargingdemand_kWh,
                park_start_timesteps |->
                    charging_processes_df[i].park_start_timesteps,
                park_end_timesteps |-> charging_processes_df[i].park_end_timesteps,
                charging_park_id |-> NaN, charging_point_id |-> NaN]]
    /\ pc' = "read_config"
    /\ last' = [NoStep EXCEPT !.op = "merge"]
    /\ UNCHANGED <<pos, grid_connections_gdf, distribution_vars, import_vars>>

\* What a readable SimBEV configuration file holds (eta_cp in percent).
ConfigData == [eta_cp |-> 90, stepsize |-> 15, simulated_days |-> 7]

\* charging_processes_df.park_end_timesteps.max(), NaN for an empty column
MaxParkEnd ==
    IF Index(charging_processes_df) = {} THEN NaN
    ELSE SetMax({charging_processes_df[i].park_end_timesteps :
                    i \in Index(charging_processes_df)})

\* except Exception: eta_cp 1.0, stepsize 15, simulated_days
\* np.ceil(max / (4 * 24)) (NaN for a NaN).
FallbackConfig ==
    [eta_cp |-> 100, stepsize |-> 15,
     simulated_days |-> IF MaxParkEnd = NaN THEN NaN
                        ELSE Ceil(MaxParkEnd, 4 * 24)]

\* read_csv_simbev_config: without a file name the if is skipped and the
\* function ends; pd.read_csv raises on a path without a file and on a file
\* it cannot parse, and the handler returns the fallback.
read_csv_simbev_config ==
    IF simbev_config_file = NoFileName THEN PyNone
    ELSE IF config_on_disk = "readable" THEN ConfigData
    ELSE FallbackConfig

ReadConfig ==
    /\ pc = "read_config"
    /\ simbev_config_df' = read_csv_simbev_config
    /\ pc' = "read_gpkg"
    /\ last' = [NoStep EXCEPT !.op = "read_config"]
    /\ UNCHANGED <<charging_processes_df, grid_connections_gdf, pos,
                   distribution_vars, files, mode, simbev_config_file,
                   config_on_disk, kwargs, use_case_gdf, num_gcs>>

\* import_simbev_electromobility is called: the files found under the path,
\* the keyword arguments, the configuration file.
ImportInit ==
    /\ files \in WalkResults
    /\ mode \in {"frugal", "None"}
    /\ \E c \in {<<NoFileName, "absent">>, <<"config_data.csv", "absent">>,
                 <<"config_data.csv", "unreadable">>,
                 <<"config_data.csv", "readable">>} :
          /\ simbev_config_file = c[1]
          /\ config_on_disk = c[2]
    /\ simbev_config_df = NotRead
    /\ kwargs = {}
    /\ use_case_gdf = << >>
    /\ num_gcs = 0
    /\ charging_processes_df = EmptyFrame
    /\ grid_connections_gdf = EmptyFrame
    /\ pc = "read_csvs"
    /\ pos = 0
    /\ eta_charging_points \in EtaValues
    /\ topology_id = 1
    /\ rng = None
    /\ charging_point_id = 0
    /\ charging_park_id = Unbound
    /\ designated_charging_point_capacity_df = EmptyFrame
    /\ available_charging_points_df = EmptyFrame
    /\ draws = {}
    /\ last = NoStep
    /\ run = 1
    /\ first_run = NoResult
    /\ Elsewhere
    /\ UserFriendly

ImportNext ==
    \/ ListFiles
    \/ ReadFile
    \/ MergeMatchingColumns
    \/ ReadConfig

ImportSpec == ImportInit /\ [][ImportNext]_vars

\* ----------------------------------------------- read_gpkg_grid_connections
\* Rates and counts are small here: for the numbers of cars of this model the
\* float arithmetic of the loop (num_gcs / num_cars, its double, the ceil of
\* num_gcs * rate / actual) agrees with the exact arithmetic used below.
MaxImportCars == 6   \* cars of the charging processes the import has read

\* USECASES.items(), in the order of the dict.
UseCaseOrder == <<"hpc", "public", "home", "work">>

\* The rows of one use case.
UseCaseRows(df, use_case) ==
    SelectSeq(Table(df), LAMBDA r : r.use_case = use_case)

\* rows.sample(n): n of the rows (the order of a sample does not outlast the
\* sort at the end of the function; the rows are kept in frame order).
Samples(rows, n) ==
    {[k \in 1..n |-> rows[Ascending(P)[k]]] :
        P \in {Q \in SUBSET (1..Len(rows)) : Cardinality(Q) = n}}

\* len(charging_processes_df.car_id.unique())
num_cars ==
    Cardinality({charging_processes_df[i].car_id :
                    i \in Index(charging_processes_df)})

\* Mutant: the loop is content with half the rate.
ActualRateBelowHalf(use_case, factor) ==
    num_gcs * factor * 2000 < GcToCarRate(use_case) * num_cars

\* actual_gc_to_car_rate * factor < gc_to_car_rate, with
\* actual_gc_to_car_rate = num_gcs / num_cars and the rate per mille.
ActualRateBelow(use_case, factor) ==
    num_gcs * factor * 1000 < GcToCarRate(use_case) * num_cars

\* The call read_gpkg_grid_connections(path, dir=..., **kwargs): the function
\* takes path and dir only, a keyword left in kwargs is a TypeError.
ReadGpkgRaises ==
    /\ pc = "for_use_case"
    /\ pos = 0
    /\ kwargs # {}
    /\ Raise("TypeError")
    /\ UNCHANGED <<charging_processes_df, grid_connections_gdf, pos,
                   distribution_vars, import_vars>>

\* for _, use_case in USECASES.items(): up to the while loop. A use case
\* without rows gets a sample of a tenth of the public rows, relabelled;
\* use_case_gdf and num_gcs are what they were before that.
ForUseCase ==
    /\ pc = "for_use_case"
    /\ pos < Len(UseCaseOrder)
    /\ kwargs = {}
    /\ LET use_case == UseCaseOrder[pos + 1]
           rows == UseCaseRows(grid_connections_gdf, use_case)
           public_gcs == UseCaseRows(grid_connections_gdf, "public")
       IN /\ use_case_gdf' = rows
          /\ num_gcs' = Len(rows)
          /\ IF Len(rows) = 0
             THEN \E random_gcs \in Samples(public_gcs,
                                            Ceil(Len(public_gcs), 10)) :
                     grid_connections_gdf' =
                         AppendRows(grid_connections_gdf,
                                    [k \in 1..Len(random_gcs) |->
                                        [random_gcs[k]
                                             EXCEPT !.use_case = use_case]])
             ELSE UNCHANGED grid_connections_gdf
    /\ pc' = "while"
    /\ last' = [NoStep EXCEPT !.op = "for_use_case"]
    /\ UNCHANGED <<charging_processes_df, pos, distribution_vars, files, mode,
                   simbev_config_file, config_on_disk, simbev_config_df, kwargs>>

\* One iteration of while actual_gc_to_car_rate < gc_to_car_rate: the rows
\* of the use case are appended once more, or as many of them as are missing.
WhileBelowRate ==
    /\ pc = "while"
    /\ num_cars # 0
    /\ ActualRateBelow(UseCaseOrder[pos + 1], 1)
    /\ LET use_case == UseCaseOrder[pos + 1]
           extra_gcs == Ceil(num_gcs * GcToCarRate(use_case) * num_cars,
                             num_gcs * 1000) - num_gcs
       IN \E extra_gdf \in (IF ActualRateBelow(use_case, 2)
                            THEN {use_case_gdf}
                            ELSE Samples(use_case_gdf, extra_gcs)) :
           /\ grid_connections_gdf' =
                  AppendRows(grid_connections_gdf, extra_gdf)
           /\ use_case_gdf' = UseCaseRows(grid_connections_gdf', use_case)
           /\ num_gcs' = Len(use_case_gdf')
    /\ last' = [NoStep EXCEPT !.op = "while"]
    /\ UNCHANGED <<charging_processes_df, pc, pos, distribution_vars, files, mode,
                   simbev_config_file, config_on_disk, simbev_config_df, kwargs>>

\* The while loop ends: the next use case, or the end of the for loop.
NextUseCase ==
    /\ pc = "while"
    /\ ~(num_cars # 0 /\ ActualRateBelow(UseCaseOrder[pos + 1], 1))
    /\ pos' = pos + 1
    /\ pc' = IF pos + 1 = Len(UseCaseOrder) THEN "sort" ELSE "for_use_case"
    /\ last' = [NoStep EXCEPT !.op = "next_use_case"]
    /\ UNCHANGED <<charging_processes_df, grid_connections_gdf,
                   distribution_vars, import_vars>>

\* str ordering of the use cases.
UseCaseRank(use_case) == CASE use_case = "home" -> 0
                           [] use_case = "hpc" -> 1
                           [] use_case = "public" -> 2
                           [] use_case = "work" -> 3

\* sort_values(by=["use_case", "ags", "user_centric_weight"],
\*             ascending=[True, True, False])
RowBefore(r, s) ==
    \/ UseCaseRank(r.use_case) < UseCaseRank(s.use_case)
    \/ /\ r.use_case = s.use_case
       /\ \/ r.ags < s.ags
          \/ r.ags = s.ags /\ r.user_centric_weight > s.user_centric_weight

RECURSIVE sort_values(_)
sort_values(rows) ==
    IF rows = << >> THEN << >>
    ELSE LET m == CHOOSE i \in 1..Len(rows) :
                      /\ \A j \in 1..Len(rows) : ~RowBefore(rows[j], rows[i])
                      /\ \A j \in 1..(i - 1) : RowBefore(rows[i], rows[j])
                                               \/ RowBefore(rows[j], rows[i])
         IN <<rows[m]>>
            \o sort_values([k \in 1..(Len(rows) - 1) |->
                               IF k < m THEN rows[k] ELSE rows[k + 1]])

\* The weights of each use case, min-max scaled to 0 .. 1 (0 .. WScale here).
normalized_weight(rows) ==
    [k \in 1..Len(rows) |->
        LET same == {j \in 1..Len(rows) : rows[j].use_case = rows[k].use_case}
            a == Ascending(same)
            scaled == fit_transform([j \in 1..Len(a) |->
                                        rows[a[j]].user_centric_weight])
            own == CHOOSE j \in 1..Len(a) : a[j] = k
        IN (scaled[own].num * WScale) \div scaled[own].den]

\* The end of read_gpkg_grid_connections: sorted, the index reset, the
\* weights scaled; the frame becomes electromobility.grid_connections_gdf.
SortAndScale ==
    /\ pc = "sort"
    /\ \E sorted \in {sort_values(Table(grid_connections_gdf))} :
           \E weights \in {normalized_weight(sorted)} :
               grid_connections_gdf' =
                   Frame([k \in 1..Len(sorted) |->
                             [sorted[k] EXCEPT
                                  !.user_centric_weight = weights[k]]])
    /\ pc' = "imported"
    /\ last' = [NoStep EXCEPT !.op = "sort"]
    /\ UNCHANGED <<charging_processes_df, pos, distribution_vars, import_vars>>

\* What the GPKG files hold for one use case: nothing, one row without a
\* weight column (weight 0), or two rows of weights 1 and 0.
RawRows(use_case, n) ==
    CASE n = 0 -> << >>
      [] n = 1 -> <<GridConnection(1, use_case, 0)>>
      [] n = 2 -> <<GridConnection(1, use_case, 1),
                    GridConnection(1, use_case, 0)>>

RawGridConnectionTables ==
    {RawRows("hpc", c["hpc"]) \o RawRows("public", c["public"])
         \o RawRows("home", c["home"]) \o RawRows("work", c["work"]) :
        c \in [USECASES -> {0, 1, 2}]}

\* The charging processes of n cars, one row each.
CarTable(n) == [k \in 1..n |-> ProcessRow(k - 1, "6_home", "private", 1100, 0, 2)]

\* read_gpkg_grid_connections is called: the charging processes are read, the
\* GPKG files are in the frame, kwargs holds what the caller passed beyond
\* the four names import_simbev_electromobility pops.
GpkgInit ==
    /\ \E n \in 0..MaxImportCars : charging_processes_df = Frame(CarTable(n))
    /\ \E g \in RawGridConnectionTables : grid_connections_gdf = Frame(g)
    /\ kwargs \in {{}, {"gc_to_car_rate_home"}}
    /\ pc = "for_use_case"
    /\ pos = 0
    /\ use_case_gdf = << >>
    /\ num_gcs = 0
    /\ files = << >>
    /\ mode = "frugal"
    /\ simbev_config_file = NoFileName
    /\ config_on_disk = "absent"
    /\ simbev_config_df = NotRead
    /\ eta_charging_points \in EtaValues
    /\ topology_id = 1
    /\ rng = None
    /\ charging_point_id = 0
    /\ charging_park_id = Unbound
    /\ designated_charging_point_capacity_df = EmptyFrame
    /\ available_charging_points_df = EmptyFrame
    /\ draws = {}
    /\ last = NoStep
    /\ run = 1
    /\ first_run = NoResult
    /\ Elsewhere
    /\ UserFriendly

GpkgNext ==
    \/ ReadGpkgRaises
    \/ ForUseCase
    \/ WhileBelowRate
    \/ NextUseCase
    \/ SortAndScale

GpkgSpec == GpkgInit /\ [][GpkgNext]_vars

\* The interpreter keeps running the function: a step that can change the
\* state is taken.
GpkgFairSpec == GpkgSpec /\ WF_vars(GpkgNext)

\* ------------------------------------------------ Results (grid/network.py)
MaxAssignments == 3  \* assignments made to the pfa_ properties of one object

\* distribute_charging_demand and import_simbev_electromobility are not
\* running.
Idle ==
    /\ charging_processes_df = EmptyFrame
    /\ grid_connections_gdf = EmptyFrame
    /\ eta_charging_points \in EtaValues
    /\ topology_id = 1
    /\ rng = None
    /\ charging_point_id = 0
    /\ charging_park_id = Unbound
    /\ designated_charging_point_capacity_df = EmptyFrame
    /\ available_charging_points_df = EmptyFrame
    /\ draws = {}
    /\ last = NoStep
    /\ run = 1
    /\ first_run = NoResult
    /\ Imported
    /\ UserFriendly

\* A column of a results DataFrame: its label and the iteration step of the
\* power flow analysis that produced its values.
Column(label, step) == [label |-> label, step |-> step]

\* The results an iteration step hands to a setter: one column or two.
PypsaFrames(step) ==
    {[columns |-> <<Column("Bus_1", step)>>],
     [columns |-> <<Column("Bus_1", step), Column("Bus_2", step)>>]}

\* pd.concat([a, b], axis=1): the columns of a, then the columns of b.
concat(a, b) == [columns |-> a.columns \o b.columns]

\* One call of a setter: the iteration step it belongs to and its argument.
SetterCall(name) ==
    /\ pc = "results"
    /\ pos < MaxAssignments
    /\ pypsa' \in PypsaFrames(pos + 1)
    /\ pos' = pos + 1
    /\ pc' = pc
    /\ last' = [NoStep EXCEPT !.op = name]
    /\ UNCHANGED <<charging_processes_df, grid_connections_gdf,
                   allocation_vars, import_vars, capacity_vars, friendly_vars>>

\* @pfa_p.setter
Set_pfa_p ==
    /\ SetterCall("pfa_p")
    /\ pfa_p' = pypsa'
    /\ UNCHANGED <<pfa_q, pfa_v_mag_pu>>

\* @pfa_q.setter
Set_pfa_q ==
    /\ SetterCall("pfa_q")
    /\ pfa_q' = pypsa'
    /\ UNCHANGED <<pfa_p, pfa_v_mag_pu>>

\* @pfa_v_mag_pu.setter
Set_pfa_v_mag_pu ==
    /\ SetterCall("pfa_v_mag_pu")
    /\ pfa_v_mag_pu' = IF pfa_v_mag_pu = PyNone THEN pypsa'
                       ELSE concat(pfa_v_mag_pu, pypsa')
    /\ UNCHANGED <<pfa_p, pfa_q>>

\* Results.__init__
ResultsInit ==
    /\ pfa_p = PyNone
    /\ pfa_q = PyNone
    /\ pfa_v_mag_pu = PyNone
    /\ pypsa = PyNone
    /\ pc = "results"
    /\ pos = 0
    /\ total_charging_point_capacity = 0
    /\ grid_connection_capacity = PyNone
    /\ Idle

ResultsNext ==
    \/ Set_pfa_p
    \/ Set_pfa_q
    \/ Set_pfa_v_mag_pu

ResultsSpec == ResultsInit /\ [][ResultsNext]_vars

\* ----------------------------------------- determine_grid_connection_capacity
\* Capacities are held in thousandths; what the function returns is held as
\* a numerator over 1000 * 1000 * (upper_limit - lower_limit).
MaxCapacity == 1200  \* greatest total_charging_point_capacity, in thousandths

lower_limit == 300

upper_limit == 1000

minimum_factor == 450

determine_grid_connection_capacity(total, lower, upper, factor) ==
    [den |-> 1000 * 1000 * (upper - lower),
     num |-> IF total <= lower THEN total * 1000 * (upper - lower)
             ELSE IF total >= upper THEN factor * total * (upper - lower)
             ELSE ((factor - 1000) * (total - lower) + 1000 * (upper - lower))
                      * total]

\* The call with the default limits and factor.
Determine ==
    /\ pc = "capacity"
    /\ grid_connection_capacity' =
           determine_grid_connection_capacity(
               total_charging_point_capacity, lower_limit, upper_limit,
               minimum_factor)
    /\ pc' = "determined"
    /\ last' = [NoStep EXCEPT !.op = "determine"]
    /\ UNCHANGED <<charging_processes_df, grid_connections_gdf, pos,
                   allocation_vars, import_vars, results_vars, friendly_vars,
                   total_charging_point_capacity>>

CapacityInit ==
    /\ total_charging_point_capacity \in 0..MaxCapacity
    /\ grid_connection_capacity = PyNone
    /\ pc = "capacity"
    /\ pos = 0
    /\ pfa_p = PyNone
    /\ pfa_q = PyNone
    /\ pfa_v_mag_pu = PyNone
    /\ pypsa = PyNone
    /\ Idle

CapacityNext == Determine

CapacitySpec == CapacityInit /\ [][CapacityNext]_vars

\* ------------------------------------------------------------------ claims
Rows == Index(charging_processes_df)

IsPrivate(i) == charging_processes_df[i].use_case = "private"

IsPublic(i) == charging_processes_df[i].use_case = "public"

Assigned(i) == /\ charging_processes_df[i].charging_park_id # NaN
               /\ charging_processes_df[i].charging_point_id # NaN

ParkOf(i) == grid_connections_gdf[charging_processes_df[i].charging_park_id]

\* C1: when distribute_charging_demand has returned, every private and every
\* public process has a charging park id and a charging point id.
C1_AllAssigned ==
    pc = "done" => \A i \in Rows : (IsPrivate(i) \/ IsPublic(i)) => Assigned(i)

C1_Witness ==
    /\ pc = "done"
    /\ \E i, j \in Rows : IsPrivate(i) /\ IsPublic(j) /\ Assigned(i) /\ Assigned(j)

\* C2: when the call has returned, the park of every private process at
\* '6_home' is a home grid connection of the process's ags.
C2_HomeParkMatches ==
    pc = "done" =>
        \A i \in Rows :
            (IsPrivate(i) /\ charging_processes_df[i].destination = "6_home") =>
                /\ Assigned(i)
                /\ ParkOf(i).use_case = "home"
                /\ ParkOf(i).ags = charging_processes_df[i].ags

C2_Witness ==
    /\ pc = "done"
    /\ \E i \in Rows :
        /\ IsPrivate(i)
        /\ charging_processes_df[i].destination = "6_home"
        /\ charging_processes_df[i].ags = 2
        /\ \E k \in Index(grid_connections_gdf) :
            /\ grid_connections_gdf[k].use_case = "home"
            /\ grid_connections_gdf[k].ags = 1

\* C3: when the call has returned, the park of every private process at
\* '0_work' is a work grid connection, of whatever ags.
C3_WorkParkIsWork ==
    pc = "done" =>
        \A i \in Rows :
            (IsPrivate(i) /\ charging_processes_df[i].destination = "0_work") =>
                /\ Assigned(i)
                /\ ParkOf(i).use_case = "work"

C3_Witness ==
    /\ pc = "done"
    /\ \E i \in Rows :
        /\ IsPrivate(i)
        /\ charging_processes_df[i].destination = "0_work"
        /\ ParkOf(i).ags # charging_processes_df[i].ags

\* The row a public step handles, and the compatibility the claims speak of.
HandledRow == public_charging_df[pos + 1]

PublicStep == pc = "public" /\ pos < Len(public_charging_df) /\ pos' = pos + 1

Compatible(record, row) ==
    /\ record.park_end_timesteps < row.park_end_timesteps
    /\ record.grid_charging_capacity_kW # NaN
    /\ Round1(record.grid_charging_capacity_kW)
           = Round1(row.grid_charging_capacity_kW)

RecordedPointIds(df) == {df[i].charging_point_id : i \in Index(df)} \ {NaN}

\* C4: a public step that gives its row a charging point id some process
\* already carries gives it a point whose availability record, as it is when
\* the step starts, ends strictly before the row ends and has the row's power
\* after rounding to one decimal; every other public step gives a new id.
C4_ReuseOnlyIfCompatible ==
    [][PublicStep =>
        LET row == charging_processes_df[HandledRow]
            point == charging_processes_df'[HandledRow].charging_point_id
        IN /\ point # NaN
           /\ point \in RecordedPointIds(charging_processes_df) =>
                 /\ point \in Index(available_charging_points_df)
                 /\ Compatible(available_charging_points_df[point], row)]_vars

C4_Witness ==
    /\ last.op = "reuse"
    /\ \E k \in Index(available_charging_points_df) :
        /\ k # last.point
        /\ k \notin last.matching
        /\ available_charging_points_df[k].grid_charging_capacity_kW # NaN

\* C5: a public row for which a compatible availability record exists gets
\* the id of a compatible point.
C5_CompatibleIsReused ==
    [][(/\ pc = "public"
        /\ pos < Len(public_charging_df)
        /\ \E k \in Index(available_charging_points_df) :
              Compatible(available_charging_points_df[k],
                         charging_processes_df[HandledRow]))
       => /\ charging_processes_df'[HandledRow].charging_point_id
                 \in Index(available_charging_points_df)
          /\ Compatible(
                 available_charging_points_df[
                     charging_processes_df'[HandledRow].charging_point_id],
                 charging_processes_df[HandledRow])]_vars

\* C6: within the private phase and within the public phase no designated
\* capacity decreases.
C6_CapacityMonotonic ==
    [][(pc' = pc /\ pc \in {"private", "public"}) =>
        \A k \in Index(grid_connections_gdf) :
            designated_charging_point_capacity_df'[k]
                >= designated_charging_point_capacity_df[k]]_vars

C6_Witness ==
    /\ pc = "public"
    /\ last.op = "mint"
    /\ \E k, l \in Index(grid_connections_gdf) :
        /\ k # l
        /\ designated_charging_point_capacity_df[k] > 0
        /\ designated_charging_point_capacity_df[l] > 0

\* C7: the call repeated on the same tables with the same topology id ends as
\* the first call did and leaves the same two matching columns.
C7_Deterministic ==
    (run = 2 /\ pc \in {"done", "error"}) => Result = first_run

C7_Witness ==
    /\ run = 2
    /\ pc = "done"
    /\ topology_id # BadId
    /\ Cardinality({e \in draws :
           Cardinality({k \in 1..Len(e.p) : e.p[k] > 0}) > 1}) > 1

\* C8: with a private row whose destination is no private destination, the
\* public phase is never entered and no public row gets an assignment.
HasUnknownDestination ==
    \E i \in Rows : /\ IsPrivate(i)
                    /\ charging_processes_df[i].destination
                           \notin DOMAIN PRIVATE_DESTINATIONS

C8_AbortBeforePublic ==
    HasUnknownDestination =>
        /\ pc \in {"private", "error"}
        /\ \A i \in Rows :
            IsPublic(i) => /\ charging_processes_df[i].charging_park_id = NaN
                           /\ charging_processes_df[i].charging_point_id = NaN

\* C9: after the private phase, the private rows of one car at one
\* destination share their charging point id and their charging park id, and
\* rows of different (car, destination) pairs have different point ids.
SamePair(i, j) ==
    /\ charging_processes_df[i].car_id = charging_processes_df[j].car_id
    /\ charging_processes_df[i].destination = charging_processes_df[j].destination

C9_OnePointPerCarAndDestination ==
    pc \in {"public", "done"} =>
        \A i, j \in Rows :
            (IsPrivate(i) /\ IsPrivate(j)) =>
                /\ Assigned(i)
                /\ SamePair(i, j) =>
                      /\ charging_processes_df[i].charging_point_id
                             = charging_processes_df[j].charging_point_id
                      /\ charging_processes_df[i].charging_park_id
                             = charging_processes_df[j].charging_park_id
                /\ ~SamePair(i, j) =>
                      charging_processes_df[i].charging_point_id
                          # charging_processes_df[j].charging_point_id

C9_Witness ==
    /\ pc = "public"
    /\ \E i, j, k \in Rows :
        /\ IsPrivate(i) /\ IsPrivate(j) /\ IsPrivate(k)
        /\ i # j
        /\ SamePair(i, j)
        /\ ~SamePair(i, k)

\* C10: no step adds or removes a row of the charging process table or
\* changes a cell outside the two matching columns.
OtherColumns(df) ==
    [i \in Index(df) |->
        [ags |-> df[i].ags, car_id |-> df[i].car_id,
         destination |-> df[i].destination, use_case |-> df[i].use_case,
         grid_charging_capacity_kW |-> df[i].grid_charging_capacity_kW,
         chargingdemand_kWh |-> df[i].chargingdemand_kWh,
         park_start_timesteps |-> df[i].park_start_timesteps,
         park_end_timesteps |-> df[i].park_end_timesteps]]

C10_OnlyMatchingColumnsChange ==
    [][OtherColumns(charging_processes_df') = OtherColumns(charging_processes_df)]_vars

C10_Witness ==
    /\ pc = "done"
    /\ run = 1
    /\ \E i, j \in Rows :
        /\ IsPrivate(i) /\ IsPublic(j)
        /\ SamePair(i, j)
        /\ Assigned(i) /\ Assigned(j)

\* The grid connections of a use case in electromobility.grid_connections_gdf.
NumGridConnections(use_case) ==
    Len(UseCaseRows(grid_connections_gdf, use_case))

C12_EveryUseCaseHasGridConnections ==
    /\ (pc = "error" => kwargs # {})
    /\ pc = "imported" =>
           \A use_case \in USECASES : NumGridConnections(use_case) >= 1

\* C13: with no configuration file name, with no file at the path and with
\* a file that cannot be read, read_csv_simbev_config returns eta_cp 1.0,
\* stepsize 15 and as simulated_days the greatest park_end_timesteps divided
\* by 96, rounded up.
C13_FallbackConfiguration ==
    (/\ pc = "read_gpkg"
     /\ \/ simbev_config_file = NoFileName
        \/ config_on_disk \in {"absent", "unreadable"})
    => /\ simbev_config_df # PyNone
       /\ simbev_config_df # NotRead
       /\ simbev_config_df.eta_cp = 100
       /\ simbev_config_df.stepsize = 15
       /\ \A i \in Index(charging_processes_df) :
              charging_processes_df[i].park_end_timesteps
                  <= 96 * simbev_config_df.simulated_days
       /\ Index(charging_processes_df) # {} =>
              \E i \in Index(charging_processes_df) :
                  charging_processes_df[i].park_end_timesteps
                      > 96 * (simbev_config_df.simulated_days - 1)

\* The rows the table holds for one car, reduced to the cells of the file.
CellsOfCar(car) ==
    LET rows == SelectSeq(Table(charging_processes_df), LAMBDA r : r.car_id = car)
    IN [k \in 1..Len(rows) |->
           [destination |-> rows[k].destination, use_case |-> rows[k].use_case,
            grid_charging_capacity_kW |-> rows[k].grid_charging_capacity_kW,
            chargingdemand_kWh |-> rows[k].chargingdemand_kWh,
            park_start_timesteps |-> rows[k].park_start_timesteps,
            park_end_timesteps |-> rows[k].park_end_timesteps]]

AgsOfCarRows(car) ==
    {charging_processes_df[i].ags :
        i \in {j \in Index(charging_processes_df) :
                  charging_processes_df[j].car_id = car}}

Skipped(file) == file.rows = "unreadable" \/ file.dir \notin {"1", "2"}

CsvsAreRead == pc \in {"read_config", "read_gpkg"}

OnlyNoFileRaises ==
    /\ pc = "error" => files = << >>
    /\ (files = << >> /\ pc # "read_csvs") => (pc = "error" /\ last.op = "ValueError")

\* C14 as stated: when the files are read, the table has no row of a file
\* that failed and every row of every other file, under the car_id that is
\* the file's position in the sorted list; ValueError is raised when there is
\* no file, and only then.
C14_EveryRowOfOtherFiles ==
    /\ OnlyNoFileRaises
    /\ CsvsAreRead =>
           \A k \in 1..Len(files) :
               IF Skipped(files[k].file) THEN CellsOfCar(k - 1) = << >>
               ELSE CellsOfCar(k - 1) = files[k].file.rows

\* C14, amended: every row of every other file that passes the filter of the
\* mode (in mode "frugal" the rows with a charging demand above 0) is in the
\* table, and no other row.
C14_EveryKeptRowOfOtherFiles ==
    /\ OnlyNoFileRaises
    /\ CsvsAreRead =>
           /\ \A k \in 1..Len(files) :
                  IF Skipped(files[k].file) THEN CellsOfCar(k - 1) = << >>
                  ELSE /\ CellsOfCar(k - 1) =
                              IF mode = "frugal"
                              THEN SelectSeq(files[k].file.rows,
                                             LAMBDA r : r.chargingdemand_kWh > 0)
                              ELSE files[k].file.rows
                       /\ AgsOfCarRows(k - 1)
                              = {IF files[k].file.dir = "1" THEN 1 ELSE 2}
           /\ \A i \in Index(charging_processes_df) :
                  charging_processes_df[i].car_id \in 0..(Len(files) - 1)
           /\ \A k \in 1..(Len(files) - 1) : files[k].path < files[k + 1].path

\* A file that failed comes before a file of two rows, one of them without
\* demand and dropped by the frugal filter; a third file is read as well.
C14_Witness ==
    /\ pc = "read_gpkg"
    /\ mode = "frugal"
    /\ Len(files) = 3
    /\ \E j, k, l \in 1..3 :
        /\ j < k /\ l # k
        /\ Skipped(files[j].file)
        /\ ~Skipped(files[k].file) /\ Len(files[k].file.rows) = 2
        /\ Len(CellsOfCar(k - 1)) = 1
        /\ ~Skipped(files[l].file) /\ Len(CellsOfCar(l - 1)) = 1

\* C15: a public step that reuses a charging point sets the end step of that
\* point's availability record to the row's end step, leaves the record's
\* other fields as they were, and neither creates nor changes another record.
C15_ReuseUpdatesThePoint ==
    [][(PublicStep /\ last'.op = "reuse") =>
        /\ last'.point \in Index(available_charging_points_df)
        /\ available_charging_points_df' =
               [available_charging_points_df
                    EXCEPT ![last'.point].park_end_timesteps =
                        charging_processes_df[HandledRow].park_end_timesteps]]_vars

\* C16: a step of the home loop that draws a park adds the car's home power,
\* not divided by the efficiency, to the designated capacity of the park it
\* drew and to no other; it does so with or without work rows in the table.
HomeStep ==
    /\ pc = "private"
    /\ pos < Len(PrivateSchedule)
    /\ DestinationOf(PrivateSchedule[pos + 1]) = "6_home"
    /\ UseCaseAgsIndices("home", PrivateSchedule[pos + 1][2]) # {}
    /\ last' # last

DrawnHomePark ==
    LET item == PrivateSchedule[pos + 1]
        rows == ChoiceMask(charging_processes_df, item[3], "6_home")
    IN charging_processes_df'[SetMin(rows)].charging_park_id

C16_HomeCapacityToDrawnPark ==
    [][HomeStep =>
        /\ pc' = "private"
        /\ designated_charging_point_capacity_df' =
               [designated_charging_point_capacity_df
                    EXCEPT ![DrawnHomePark] =
                        @ + FirstCapacity(PrivateSchedule[pos + 1][3], "6_home")
                                * eta_charging_points]]_vars

\* C17: a public step that makes a new charging point gives it the greatest
\* charging point id of the table plus 1 (0 when the table has none); no row
\* carried that id before, no availability record was kept under it, and
\* afterwards the record under it holds the row's end step, power and park.
C17_MintedIdIsNew ==
    [][(PublicStep /\ last'.op = "mint") =>
        LET ids == RecordedPointIds(charging_processes_df)
            point == charging_processes_df'[HandledRow].charging_point_id
            row == charging_processes_df[HandledRow]
        IN /\ point = IF ids = {} THEN 0 ELSE SetMax(ids) + 1
           /\ point \notin ids
           /\ point \notin Index(available_charging_points_df)
           /\ Index(available_charging_points_df') =
                  Index(available_charging_points_df) \cup {point}
           /\ available_charging_points_df'[point].park_end_timesteps
                  = row.park_end_timesteps
           /\ available_charging_points_df'[point].grid_charging_capacity_kW
                  = row.grid_charging_capacity_kW
           /\ available_charging_points_df'[point].charging_park_id
                  = charging_processes_df'[HandledRow].charging_park_id]_vars

\* C18: a reuse whose candidates' weights sum to 0 draws from the uniform
\* distribution: the step raises nothing and gives the row one of the
\* candidates.
ZeroSumReuse ==
    /\ pc = "public"
    /\ pos < Len(public_charging_df)
    /\ LET matching == MatchingChargingPoints(available_charging_points_df,
                                              charging_processes_df[HandledRow])
       IN /\ matching # {}
          /\ matching \subseteq Index(grid_connections_gdf)
          /\ \A k \in matching : grid_connections_gdf[k].user_centric_weight = 0

C18_ZeroSumIsUniform ==
    [][ZeroSumReuse =>
        /\ pc' = "public"
        /\ charging_processes_df'[HandledRow].charging_point_id
               \in MatchingChargingPoints(available_charging_points_df,
                                          charging_processes_df[HandledRow])]_vars

\* A step that draws a park with combine_weights, and the selection it hands
\* to combine_weights: the grid connections of the use case (and, for a home
\* draw, of the ags) of the park drawn.
CombinedDraw ==
    /\ pc \in {"private", "public"}
    /\ pos' = pos + 1
    /\ last'.op \in {"work", "home", "mint"}

DrawSelection ==
    LET park == grid_connections_gdf[last'.park]
    IN IF last'.op = "home" THEN UseCaseAgsIndices("home", park.ags)
       ELSE UseCaseIndices(park.use_case)

CapacitiesOf(I) ==
    [k \in 1..Cardinality(I) |->
        designated_charging_point_capacity_df[Ascending(I)[k]]]

PenaltiesOf(I) == capacity_weights(I, designated_charging_point_capacity_df)

Greatest(capacity) == SetMax({capacity[k] : k \in 1..Len(capacity)})

Least(capacity) == SetMin({capacity[k] : k \in 1..Len(capacity)})

\* C19 as stated: in the selection of every draw a grid connection of
\* capacity 0 has penalty 1 and one of the greatest capacity has penalty 0,
\* also when all capacities of the selection are equal.
C19_MaxHasPenaltyZero ==
    [][CombinedDraw =>
        \A capacity \in {CapacitiesOf(DrawSelection)},
           penalty \in {PenaltiesOf(DrawSelection)} :
            \A k \in 1..Len(capacity) :
                /\ capacity[k] = 0 => penalty[k].num = penalty[k].den
                /\ capacity[k] = Greatest(capacity) => penalty[k].num = 0]_vars

\* C19, amended: in the selection of every draw the penalty is 1 minus the
\* min-max scaled capacity; a capacity of 0 has penalty 1; the greatest
\* capacity has penalty 0 when the capacities of the selection differ, and
\* every grid connection has penalty 1 when they are all equal.
C19_PenaltyIsOneMinusScaled ==
    [][CombinedDraw =>
        \A capacity \in {CapacitiesOf(DrawSelection)},
           penalty \in {PenaltiesOf(DrawSelection)} :
            \A mx \in {Greatest(capacity)}, mn \in {Least(capacity)} :
                \A k \in 1..Len(capacity) :
                    /\ penalty[k].den > 0
                    /\ mx # mn =>
                           /\ penalty[k].den = mx - mn
                           /\ penalty[k].num
                                  = penalty[k].den - (capacity[k] - mn)
                           /\ capacity[k] = mx => penalty[k].num = 0
                    /\ capacity[k] = 0 => penalty[k].num = penalty[k].den
                    /\ mx = mn => penalty[k].num = penalty[k].den]_vars

\* Two draws have loaded the two public grid connections alike, a third
\* draw from them follows; the work grid connections were loaded unlike.
C19_Witness ==
    /\ pc = "public"
    /\ last.op = "mint"
    /\ pos = 2
    /\ Len(public_charging_df) = 3
    /\ PUBLIC_DESTINATIONS[charging_processes_df[HandledRow].destination]
           = "public"
    /\ MatchingChargingPoints(available_charging_points_df,
                              charging_processes_df[HandledRow]) = {}
    /\ Cardinality(UseCaseIndices("public")) > 1
    /\ Greatest(CapacitiesOf(UseCaseIndices("public")))
           = Least(CapacitiesOf(UseCaseIndices("public")))
    /\ CapacitiesOf(UseCaseIndices("public"))[1] > 0

\* C20: a public step that makes a new charging point puts it at a grid
\* connection of use case 'hpc' when the row's destination is
\* '7_charging_hub' and of use case 'public' for every other destination.
C20_MintedParkHasUseCase ==
    [][(PublicStep /\ last'.op = "mint") =>
        grid_connections_gdf[charging_processes_df'[HandledRow].charging_park_id]
                .use_case
            = IF charging_processes_df[HandledRow].destination = "7_charging_hub"
              THEN "hpc" ELSE "public"]_vars

C20_Witness ==
    /\ pc = "done"
    /\ \E i, j \in Rows :
        /\ IsPublic(i) /\ IsPublic(j)
        /\ charging_processes_df[i].destination = "7_charging_hub"
        /\ charging_processes_df[j].destination = "0_work"
        /\ charging_processes_df[i].charging_point_id
               # charging_processes_df[j].charging_point_id
        /\ ParkOf(i).use_case = "hpc"
        /\ ParkOf(j).use_case = "public"

\* The sort key of a row of the public loop.
StartsNoLater(i, j) ==
    \/ charging_processes_df[i].park_start_timesteps
           < charging_processes_df[j].park_start_timesteps
    \/ /\ charging_processes_df[i].park_start_timesteps
              = charging_processes_df[j].park_start_timesteps
       /\ charging_processes_df[i].park_end_timesteps
              <= charging_processes_df[j].park_end_timesteps

\* The public rows the public loop has gone through.
HandledRows == {public_charging_df[k] : k \in 1..pos}

C22_DuplicationLoopEnds == <>(pc \in {"imported", "error"})

\* The charging point ids the public loop has made so far, and the row that
\* made each: the first row handled that carries the id.
MintedPoints ==
    {charging_processes_df[i].charging_point_id : i \in HandledRows}

Minter(point) ==
    public_charging_df[
        SetMin({k \in 1..pos :
                   charging_processes_df[public_charging_df[k]].charging_point_id
                       = point})]

\* C23: throughout the public phase the availability table has one record
\* per charging point the phase has made and no other, and each record holds
\* the charging park and the power of the row that made the point.
C23_RecordsAreTheMintedPoints ==
    pc = "public" =>
        /\ Index(available_charging_points_df) = MintedPoints
        /\ \A point \in MintedPoints :
               /\ available_charging_points_df[point].charging_park_id
                      = charging_processes_df[Minter(point)].charging_park_id
               /\ available_charging_points_df[point].grid_charging_capacity_kW
                      = charging_processes_df[Minter(point)]
                            .grid_charging_capacity_kW

\* C24: at the end of the run two public rows with the same charging point
\* id do not park at the same time: one ends no later than the other starts.
C24_OnePoint_OneProcessAtATime ==
    pc = "done" =>
        \A i, j \in Rows :
            (/\ i # j
             /\ IsPublic(i) /\ IsPublic(j)
             /\ charging_processes_df[i].charging_point_id
                    = charging_processes_df[j].charging_point_id)
            => \/ charging_processes_df[i].park_end_timesteps
                      <= charging_processes_df[j].park_start_timesteps
               \/ charging_processes_df[j].park_end_timesteps
                      <= charging_processes_df[i].park_start_timesteps

\* C25: every public row the public loop has handled, by a new point or by
\* one reused, is at a charging park of the use case its destination maps to.
C25_ParkOfTheDestinationsUseCase ==
    pc \in {"public", "done"} =>
        \A i \in HandledRows :
            /\ Assigned(i)
            /\ ParkOf(i).use_case
                   = PUBLIC_DESTINATIONS[charging_processes_df[i].destination]

\* The weights of the charging parks that own the given charging points.
OwnerWeights(points) ==
    [k \in 1..Cardinality(points) |->
        grid_connections_gdf[
            available_charging_points_df[Ascending(points)[k]].charging_park_id]
                .user_centric_weight]

\* A public step whose row has compatible charging points.
ReuseStep ==
    /\ PublicStep
    /\ MatchingChargingPoints(available_charging_points_df,
                              charging_processes_df[HandledRow]) # {}

\* C26: a reuse draws among the compatible charging points with the weights
\* of the charging parks that own them: every compatible point has a park
\* that is a grid connection, and where the parks' weights do not sum to 0
\* the draw is made with these weights, normalized.
C26_ReuseWeightsAreTheParks ==
    [][ReuseStep =>
        \A matching \in {MatchingChargingPoints(
                              available_charging_points_df,
                              charging_processes_df[HandledRow])} :
            /\ \A k \in matching :
                   available_charging_points_df[k].charging_park_id
                       \in Index(grid_connections_gdf)
            /\ SeqSum(OwnerWeights(matching)) # 0 =>
                   \E e \in draws' :
                       /\ e.seed = rng.seed
                       /\ e.n = rng.n
                       /\ e.a = Ascending(matching)
                       /\ e.p = normalize(OwnerWeights(matching))
                       /\ e.out
                              = charging_processes_df'[HandledRow]
                                    .charging_point_id]_vars

\* The sum of the designated capacities of all grid connections.
TotalCapacity(capacity_df) ==
    SeqSum([k \in 1..Cardinality(Index(capacity_df)) |-> capacity_df[k - 1]])

\* The summed power of the public rows that made a charging point: of the
\* first n rows in the order of the public loop, those whose point id no row
\* before them carries.
MintedPower(df, order, n) ==
    SeqSum([k \in 1..n |->
               IF \A j \in 1..(k - 1) :
                      df[order[j]].charging_point_id
                          # df[order[k]].charging_point_id
               THEN df[order[k]].grid_charging_capacity_kW
               ELSE 0])

\* C27: the public phase starts with every designated capacity at 0, whatever
\* the private phase left; a reuse changes no designated capacity; and in the
\* public phase and at its end the designated capacities sum to the power of
\* the public rows that made a charging point (capacities are held times
\* eta_charging_points).
C27_PublicCapacityIsMintedPower ==
    [][/\ (pc = "private" /\ pc' = "public") =>
              \A k \in Index(grid_connections_gdf) :
                  designated_charging_point_capacity_df'[k] = 0
       /\ (pc = "public" /\ last'.op = "reuse") =>
              designated_charging_point_capacity_df'
                  = designated_charging_point_capacity_df
       /\ pc' \in {"public", "done"} =>
              \A order \in {public_charging_df} :
                  TotalCapacity(designated_charging_point_capacity_df')
                      = MintedPower(charging_processes_df', order, pos')
                            * eta_charging_points
      ]_vars

\* The public phase has made two charging points, reused one of them and
\* returned.
C27_Witness ==
    /\ pc = "done"
    /\ Cardinality(HandledRows) = 3
    /\ Cardinality(MintedPoints) = 2
    /\ TotalCapacity(designated_charging_point_capacity_df)
           < eta_charging_points
                 * SeqSum([k \in 1..3 |->
                              charging_processes_df[public_charging_df[k]]
                                  .grid_charging_capacity_kW])

\* C29: after an assignment to pfa_v_mag_pu, pfa_p or pfa_q, the first or a
\* later one, the property holds what was assigned last and nothing else.
C29_LastAssignmentOnly ==
    /\ last.op = "pfa_v_mag_pu" => pfa_v_mag_pu = pypsa
    /\ last.op = "pfa_p" => pfa_p = pypsa
    /\ last.op = "pfa_q" => pfa_q = pypsa

\* C30: with the default limits and factor, the capacity returned for a total
\* capacity is not greater than the one returned for any greater total
\* capacity of the grid of thousandths.
C30_Monotonic ==
    pc = "determined" =>
        \A y \in total_charging_point_capacity..MaxCapacity :
            grid_connection_capacity.num
                <= determine_grid_connection_capacity(
                       y, lower_limit, upper_limit, minimum_factor).num

\* C28: a call repeated on the same tables and topology with other kwargs
\* (another mode, other factors) gives every private row the charging park
\* and the charging point the first call gave it.
C28_PrivateRowsIgnoreKwargs ==
    (run = 2 /\ pc \in {"public", "done", "error"}) =>
        \A i \in Rows :
            IsPrivate(i) =>
                Matching(charging_processes_df)[i] = first_run.matching[i]

\* A user friendly and a grid friendly call have both returned; they agree
\* on the private rows, which are at parks, and differ on a public row.
C28_Witness ==
    /\ run = 2
    /\ pc = "done"
    /\ first_run.ended = "done"
    /\ distribution_kwargs.mode = "grid_friendly"
    /\ \E i \in Rows : IsPrivate(i) /\ Assigned(i)
    /\ \E i \in Rows :
          /\ IsPublic(i)
          /\ Matching(charging_processes_df)[i] # first_run.matching[i]

=============================================================================
